---- MODULE Spec2Model ----
(***************************************************************************)
(* A model of server/services/pdf_processor.py: PDFProcessor, the PDF      *)
(* text extraction pipeline (block segmentation, sentence splitting,       *)
(* batching) and its content-addressed cache on the file system.           *)
(*                                                                         *)
(* Text is a sequence of one-character strings.  A PDF document is what    *)
(* PyMuPDF reports about it: whether it opens, and for each page whether   *)
(* get_text("dict") succeeds and which blocks it returns.                  *)
(***************************************************************************)
EXTENDS Integers, Sequences, FiniteSets, TLC

VARIABLES
    cache_dir,   \* self.cache_dir: TRUE when a cache directory is configured
    disk,        \* the files that exist: byte-identical copies of one file
    cache,       \* the cache directory: content hash -> file cells, or Absent
    ret,         \* what the last finished sequential call did and returned
    first,       \* history: the first successful cache-enabled extraction
    calls,       \* concurrent invocations: position and locals of each
    heap,        \* the segment dicts of a direct call, by address (1..Len)
    pfIn,        \* the list handed to a direct call: addresses into heap
    pfOut        \* the list it returned: addresses into heap

vars == <<cache_dir, disk, cache, ret, first, calls, heap, pfIn, pfOut>>

(***************************************************************************)
(* Bounds of the model.                                                    *)
(***************************************************************************)
\* largest max_segments_per_batch tried
MaxK == 2
\* largest elapsed time, in whole milliseconds, of one call
MaxElapsedMs == 1
\* cells one flush of the cache file's write buffer carries
ChunkLen == 5
\* longest segment list handed directly to segment_into_sentences
MaxSplitLen == 3
\* concurrent invocations
NProcs == 2

\* the absent optional integer field (original_segment_id)
NoId == -1

(***************************************************************************)
(* Text helpers: str.strip, re.match(r"^\d+$"), " ".join                    *)
(***************************************************************************)
Space == {" "}
Digits == {"1", "2"}
Upper == {"A"}
Punct == {".", "!", "?"}

RECURSIVE LStrip(_)
LStrip(s) == IF s # <<>> /\ Head(s) \in Space THEN LStrip(Tail(s)) ELSE s

RECURSIVE RStrip(_)
RStrip(s) ==
    IF s # <<>> /\ s[Len(s)] \in Space THEN RStrip(SubSeq(s, 1, Len(s) - 1)) ELSE s

Strip(s) == RStrip(LStrip(s))

AllDigits(s) == s # <<>> /\ \A i \in 1..Len(s) : s[i] \in Digits

RECURSIVE Concat(_)
Concat(ss) == IF ss = <<>> THEN <<>> ELSE Head(ss) \o Concat(Tail(ss))

RECURSIVE JoinSpace(_)
JoinSpace(ls) ==
    IF ls = <<>> THEN <<>>
    ELSE IF Len(ls) = 1 THEN ls[1]
    ELSE ls[1] \o <<" ">> \o JoinSpace(Tail(ls))

RECURSIVE NonBlankLines(_, _)
\* the non-blank line texts of a block, in order (a line is a list of spans)
NonBlankLines(lines, i) ==
    IF i > Len(lines) THEN <<>>
    ELSE LET line_text == Concat(lines[i])
         IN  (IF Strip(line_text) # <<>> THEN <<line_text>> ELSE <<>>)
             \o NonBlankLines(lines, i + 1)

BlockLines(block) == NonBlankLines(block.lines, 1)

BlockText(block) == Strip(JoinSpace(BlockLines(block)))

(***************************************************************************)
(* _process_blocks                                                         *)
(***************************************************************************)
\* the header / footer / page number heuristic
LooksLikeNoise(text) == AllDigits(text) \/ Len(text) < 5

\* a block that the loop skips with `continue`
Skipped(block) ==
    \/ block.type # 0
    \/ BlockLines(block) = <<>>
    \/ BlockText(block) = <<>>
    \/ LooksLikeNoise(BlockText(block))

MakeSegment(block, page_num, segment_id) ==
    [id |-> segment_id,
     source |-> BlockText(block),
     page |-> page_num + 1,
     bbox |-> block.bbox,
     position |-> [x |-> block.bbox[1],
                   y |-> block.bbox[2],
                   width |-> block.bbox[3] - block.bbox[1],
                   height |-> block.bbox[4] - block.bbox[2]],
     original_segment_id |-> NoId]

\* the counter after a skipped block: a plausible slip counts it anyway
SkipBlockId_Counted(segment_id) == segment_id + 1

\* the counter after a skipped block: `continue` leaves segment_id alone
SkipBlockId(segment_id) == segment_id

RECURSIVE InsertByY(_, _)
\* list.sort(key=bbox[1]) is stable: b goes after every block with y <= its y
InsertByY(sorted, b) ==
    IF sorted = <<>> THEN <<b>>
    ELSE IF Head(sorted).bbox[2] <= b.bbox[2]
         THEN <<Head(sorted)>> \o InsertByY(Tail(sorted), b)
         ELSE <<b>> \o sorted

RECURSIVE SortByY(_)
SortByY(bs) ==
    IF bs = <<>> THEN <<>>
    ELSE InsertByY(SortByY(SubSeq(bs, 1, Len(bs) - 1)), bs[Len(bs)])

RECURSIVE PageBlocks(_, _)
\* pages[page_num]: the blocks of one page, in input order
PageBlocks(blocks, page_num) ==
    IF blocks = <<>> THEN <<>>
    ELSE (IF Head(blocks).page = page_num THEN <<Head(blocks)>> ELSE <<>>)
         \o PageBlocks(Tail(blocks), page_num)

RECURSIVE ProcessPage(_, _, _)
\* the inner loop over one page's sorted blocks; st = [segments, segment_id]
ProcessPage(page_blocks, page_num, st) ==
    IF page_blocks = <<>> THEN st
    ELSE LET block == Head(page_blocks)
         IN  IF Skipped(block)
             THEN ProcessPage(Tail(page_blocks), page_num,
                      [st EXCEPT !.segment_id = SkipBlockId(@)])
             ELSE ProcessPage(Tail(page_blocks), page_num,
                      [segments |-> Append(st.segments,
                                       MakeSegment(block, page_num, st.segment_id)),
                       segment_id |-> st.segment_id + 1])

RECURSIVE ProcessPages(_, _, _)
\* the outer loop: for page_num in sorted(pages.keys())
ProcessPages(page_nums, blocks, st) ==
    IF page_nums = {} THEN st
    ELSE LET page_num == CHOOSE p \in page_nums : \A q \in page_nums : p <= q
         IN  ProcessPages(page_nums \ {page_num}, blocks,
                 ProcessPage(SortByY(PageBlocks(blocks, page_num)), page_num, st))

ProcessBlocks(blocks) ==
    ProcessPages({blocks[i].page : i \in 1..Len(blocks)}, blocks,
                 [segments |-> <<>>, segment_id |-> 0]).segments

(***************************************************************************)
(* segment_into_sentences                                                  *)
(***************************************************************************)
RECURSIVE SpaceRunEnd(_, _)
\* the last index of the whitespace run that starts at i
SpaceRunEnd(s, i) ==
    IF i < Len(s) /\ s[i + 1] \in Space THEN SpaceRunEnd(s, i + 1) ELSE i

RECURSIVE SplitFrom(_, _, _)
\* re.split on (?<=[.!?])\s+(?=[A-Z...]): scanning at i, current piece from start
SplitFrom(s, i, start) ==
    IF i > Len(s) THEN <<SubSeq(s, start, Len(s))>>
    ELSE IF /\ s[i] \in Space
            /\ i > 1
            /\ s[i - 1] \in Punct
            /\ SpaceRunEnd(s, i) < Len(s)
            /\ s[SpaceRunEnd(s, i) + 1] \in Upper
         THEN <<SubSeq(s, start, i - 1)>>
              \o SplitFrom(s, SpaceRunEnd(s, i) + 1, SpaceRunEnd(s, i) + 1)
         ELSE SplitFrom(s, i + 1, start)

PatternSplit(text) == SplitFrom(text, 1, 1)

RECURSIVE StripNonEmpty(_)
\* [s.strip() for s in sentences if s.strip()]
StripNonEmpty(pieces) ==
    IF pieces = <<>> THEN <<>>
    ELSE (IF Strip(Head(pieces)) # <<>> THEN <<Strip(Head(pieces))>> ELSE <<>>)
         \o StripNonEmpty(Tail(pieces))

Sentences(text) == StripNonEmpty(PatternSplit(text))

\* the dicts a list of addresses refers to, as a reader of the list sees them
Deref(dicts, list) == [i \in 1..Len(list) |-> dicts[list[i]]]

\* original_segment_id of a sentence, were it taken after the renumbering
ParentId_Renumbered(dicts, segment, segment_id) == segment_id

\* line 250, original_segment_id of a sentence: segment["id"], read through
\* the parent's address as the dict is now
ParentId(dicts, segment, segment_id) == dicts[segment].id

RECURSIVE EmitSentences(_, _, _)
\* lines 246-252, for sentence in sentences: a copy of the parent is a new
\* dict, with id, source and original_segment_id set
EmitSentences(segment, sentences, st) ==
    IF sentences = <<>> THEN st
    ELSE LET new_segment ==
                 [st.dicts[segment] EXCEPT
                      !.id = st.segment_id,
                      !.source = Head(sentences),
                      !.original_segment_id =
                          ParentId(st.dicts, segment, st.segment_id)]
         IN  EmitSentences(segment, Tail(sentences),
                 [dicts |-> Append(st.dicts, new_segment),
                  out |-> Append(st.out, Len(st.dicts) + 1),
                  segment_id |-> st.segment_id + 1])

\* lines 239-243: segment["id"] = segment_id writes into the caller's dict,
\* and that same dict is appended to the output
KeepSegment(segment, st) ==
    [dicts |-> [st.dicts EXCEPT ![segment].id = st.segment_id],
     out |-> Append(st.out, segment),
     segment_id |-> st.segment_id + 1]

RECURSIVE SplitLoop(_, _)
\* for segment in segments; st = [dicts, out, segment_id]
SplitLoop(segments, st) ==
    IF segments = <<>> THEN st
    ELSE LET segment == Head(segments)
             sentences == Sentences(st.dicts[segment].source)
         IN  SplitLoop(Tail(segments),
                 IF sentences = <<>>
                 THEN KeepSegment(segment, st)
                 ELSE EmitSentences(segment, sentences, st))

\* the method on a list of addresses: the dicts after the call and the
\* returned list
SplitRun(dicts, segments) ==
    SplitLoop(segments, [dicts |-> dicts, out |-> <<>>, segment_id |-> 0])

\* the method on a list whose elements are distinct dicts, as _process_blocks
\* and json.load build them: the returned list as its reader sees it
SegmentIntoSentences(segments) ==
    LET run == SplitRun(segments, [i \in 1..Len(segments) |-> i])
    IN  Deref(run.dicts, run.out)

(***************************************************************************)
(* The result envelope.  Optional keys are recorded by presence: `keys`    *)
(* holds the optional top-level keys the dict has, metadata.keys the       *)
(* optional metadata keys; an absent key's field holds a default.          *)
(***************************************************************************)
Basename(file_path) == file_path.base

\* lines 67-75
NewResult(file_path) ==
    [segments |-> <<>>,
     metadata |-> [fileName |-> Basename(file_path),
                   pageCount |-> 0,
                   processingTimeMs |-> 0,
                   extractionMethod |-> "PyMuPDF",
                   fromCache |-> FALSE,
                   totalSegments |-> 0,
                   batchCount |-> 0,
                   keys |-> {}],
     error |-> "",
     batches |-> <<>>,
     initialSegments |-> <<>>,
     keys |-> {}]

\* a Python slice s[a:b] with 0 <= a
PySlice(s, a, b) ==
    IF a >= Len(s) \/ b <= a THEN <<>>
    ELSE SubSeq(s, a + 1, IF b < Len(s) THEN b ELSE Len(s))

(***************************************************************************)
(* batch_process_pdf, after the extraction: sentences, batches, metadata   *)
(***************************************************************************)
\* a descriptor whose endSegmentId is the slice's end index, not the last id
BatchInfo_EndIndex(batches, batch) ==
    [batchId |-> Len(batches),
     startSegmentId |-> IF batch # <<>> THEN batch[1].id ELSE 0,
     endSegmentId |-> IF batch # <<>> THEN batch[Len(batch)].id + 1 ELSE 0,
     segmentCount |-> Len(batch)]

BatchInfo(batches, batch) ==
    [batchId |-> Len(batches),
     startSegmentId |-> IF batch # <<>> THEN batch[1].id ELSE 0,
     endSegmentId |-> IF batch # <<>> THEN batch[Len(batch)].id ELSE 0,
     segmentCount |-> Len(batch)]

RECURSIVE BatchLoop(_, _, _, _)
\* for i in range(0, len(segments), max_segments_per_batch), with the step >= 1
BatchLoop(segments, max_segments_per_batch, i, batches) ==
    IF i >= Len(segments) THEN batches
    ELSE BatchLoop(segments, max_segments_per_batch, i + max_segments_per_batch,
             Append(batches,
                 BatchInfo(batches,
                           PySlice(segments, i, i + max_segments_per_batch))))

Batches(segments, max_segments_per_batch) ==
    BatchLoop(segments, max_segments_per_batch, 0, <<>>)

\* not result.get("error"): the key is absent or its message is empty
NoError(result) == ~("error" \in result.keys /\ result.error # "")

\* lines 275-305, applied to what extract_text_from_pdf returned
BatchPostProcess(result, max_segments_per_batch) ==
    LET segments == IF NoError(result)
                    THEN SegmentIntoSentences(result.segments)
                    ELSE result.segments
        batches == Batches(segments, max_segments_per_batch)
        withFirst == batches # <<>>
    IN  [result EXCEPT
            !.segments = segments,
            !.batches = batches,
            !.keys = @ \cup {"batches"}
                       \cup (IF withFirst THEN {"initialSegments"} ELSE {}),
            !.initialSegments =
                IF withFirst
                THEN PySlice(segments, batches[1].startSegmentId,
                             batches[1].endSegmentId + 1)
                ELSE @,
            !.metadata.totalSegments = Len(segments),
            !.metadata.batchCount = Len(batches),
            !.metadata.keys = @ \cup {"totalSegments", "batchCount"}]

(***************************************************************************)
(* The cache file: json.dump writes the envelope as text, json.load reads  *)
(* it back.  The text is a sequence of cells in the order json.dump emits  *)
(* the keys: the segments, the metadata (fileName first, one cell per       *)
(* character of the name), then the optional keys.                         *)
(***************************************************************************)
Nul == [t |-> "nul"]

SegCells(segments) == [i \in 1..Len(segments) |-> [t |-> "seg", seg |-> segments[i]]]

NameCells(name) == [i \in 1..Len(name) |-> [t |-> "ch", ch |-> name[i]]]

MetaCell(metadata) ==
    [t |-> "meta",
     meta |-> [pageCount |-> metadata.pageCount,
               processingTimeMs |-> metadata.processingTimeMs,
               extractionMethod |-> metadata.extractionMethod,
               fromCache |-> metadata.fromCache,
               totalSegments |-> metadata.totalSegments,
               batchCount |-> metadata.batchCount,
               keys |-> metadata.keys]]

OptCell(result) ==
    [t |-> "opt",
     opt |-> [error |-> result.error,
              batches |-> result.batches,
              initialSegments |-> result.initialSegments,
              keys |-> result.keys]]

\* json.dump(result, f)
Dump(result) ==
    <<[t |-> "open"]>> \o SegCells(result.segments) \o <<[t |-> "endsegs"]>>
    \o NameCells(result.metadata.fileName)
    \o <<MetaCell(result.metadata), OptCell(result), [t |-> "close"]>>

\* the index of the first cell of kind t, or 0
FirstOf(cells, t) ==
    IF \E i \in 1..Len(cells) : cells[i].t = t
    THEN CHOOSE i \in 1..Len(cells) :
             cells[i].t = t /\ \A j \in 1..(i - 1) : cells[j].t # t
    ELSE 0

\* whether the text is a JSON document of the envelope's shape
WellFormed(cells) ==
    LET n == Len(cells)
        e == FirstOf(cells, "endsegs")
    IN  /\ n >= 5
        /\ cells[1].t = "open"
        /\ cells[n].t = "close"
        /\ cells[n - 1].t = "opt"
        /\ cells[n - 2].t = "meta"
        /\ e >= 2 /\ e <= n - 3
        /\ \A i \in 2..(e - 1) : cells[i].t = "seg"
        /\ \A i \in (e + 1)..(n - 3) : cells[i].t = "ch"

\* json.load(f) of a well-formed text
Load(cells) ==
    LET n == Len(cells)
        e == FirstOf(cells, "endsegs")
        m == cells[n - 2].meta
        o == cells[n - 1].opt
    IN  [segments |-> [i \in 1..(e - 2) |-> cells[i + 1].seg],
         metadata |-> [fileName |-> [i \in 1..(n - 3 - e) |-> cells[e + i].ch],
                       pageCount |-> m.pageCount,
                       processingTimeMs |-> m.processingTimeMs,
                       extractionMethod |-> m.extractionMethod,
                       fromCache |-> m.fromCache,
                       totalSegments |-> m.totalSegments,
                       batchCount |-> m.batchCount,
                       keys |-> m.keys],
         error |-> o.error,
         batches |-> o.batches,
         initialSegments |-> o.initialSegments,
         keys |-> o.keys]

(***************************************************************************)
(* The files tried.  A file is its path (directory and base name), whether *)
(* it exists, and its bytes; the bytes decide what PyMuPDF finds in it.     *)
(***************************************************************************)
tPlain == <<"a", "a", "a", "a", "a">>
tTwo == <<"A", "a", ".", " ", "A", "a", ".">>
tLower == <<"a", "a", ".", " ", "a", "a">>
tNumber == <<"1", "2", "1", "2", "1">>
tShort == <<"a", "a", "a">>

\* a block of the given type at height y; a line is a list of spans
Block(type, y, lines) == [type |-> type, bbox |-> <<1, y, 4, y + 2>>, lines |-> lines]

LineOf(text) == <<text>>

GoodPage(blocks) == [ok |-> TRUE, blocks |-> blocks]

\* a page whose get_text raises
BadPage == [ok |-> FALSE, blocks |-> <<>>]

Document(bytes) ==
    CASE bytes = "one" ->
            [openable |-> TRUE,
             pages |-> <<GoodPage(<<Block(1, 0, <<>>),
                                   Block(0, 1, <<LineOf(tNumber)>>),
                                   Block(0, 3, <<<<<<"A", "a">>, <<".">>>>,
                                                 <<<<" ">>>>,
                                                 <<<<"A", "a", "a">>>>>>),
                                   Block(0, 2, <<LineOf(tPlain)>>)>>)>>]
      [] bytes = "two" ->
            [openable |-> TRUE,
             pages |-> <<GoodPage(<<Block(0, 5, <<LineOf(tTwo)>>),
                                   Block(0, 1, <<LineOf(tShort)>>)>>),
                         GoodPage(<<Block(0, 0, <<LineOf(tLower)>>)>>)>>]
      [] bytes = "empty" -> [openable |-> TRUE, pages |-> <<>>]
      [] bytes = "notext" ->
            [openable |-> TRUE,
             pages |-> <<GoodPage(<<Block(1, 0, <<>>),
                                   Block(0, 1, <<LineOf(tNumber)>>)>>)>>]
      [] bytes = "badpage" ->
            [openable |-> TRUE,
             pages |-> <<GoodPage(<<Block(0, 0, <<LineOf(tPlain)>>)>>), BadPage>>]
      [] OTHER -> [openable |-> FALSE, pages |-> <<>>]

Hashes == {"one", "two", "empty", "notext", "badpage", "notpdf"}

FileAt(base, exists, bytes) == [base |-> base, exists |-> exists, bytes |-> bytes]

\* <<"b", "b">> is a byte-identical copy of <<"a">> under a longer name
Files ==
    {FileAt(<<"a">>, TRUE, "one"), FileAt(<<"b", "b">>, TRUE, "one"),
     FileAt(<<"c">>, TRUE, "two"), FileAt(<<"e">>, TRUE, "empty"),
     FileAt(<<"n">>, TRUE, "notext"), FileAt(<<"p">>, TRUE, "badpage"),
     FileAt(<<"x">>, TRUE, "notpdf")}

\* get_file_hash: the digest of the bytes, whatever the path
FileHash(file_path) == file_path.bytes

(***************************************************************************)
(* extract_text_from_pdf                                                   *)
(***************************************************************************)
\* a cache file: `by` remembers which entry operation's call wrote it
Absent == [exists |-> FALSE, cells |-> <<>>, by |-> "none"]

Present(cells, by) == [exists |-> TRUE, cells |-> cells, by |-> by]

\* lines 82-90: the cached envelope, when the file opens, reads and has the shape
CacheLoads(entry, read_fails) ==
    entry.exists /\ ~read_fails /\ WellFormed(entry.cells)

\* lines 87-88
FromCache(cached_data) ==
    [cached_data EXCEPT !.metadata.fromCache = TRUE,
                        !.metadata.keys = @ \cup {"fromCache"}]

RECURSIVE ReadPages(_, _, _, _)
\* lines 104-115: [ok, all_blocks, read]; a page whose get_text raises ends it
ReadPages(doc, page_num, end_page, acc) ==
    IF page_num > end_page THEN acc
    ELSE IF ~doc.pages[page_num + 1].ok
         THEN [acc EXCEPT !.ok = FALSE]
         ELSE LET blocks == doc.pages[page_num + 1].blocks
              IN  ReadPages(doc, page_num + 1, end_page,
                      [acc EXCEPT
                          !.all_blocks = @ \o
                              [i \in 1..Len(blocks) |->
                                  [type |-> blocks[i].type,
                                   bbox |-> blocks[i].bbox,
                                   lines |-> blocks[i].lines,
                                   page |-> page_num]],
                          !.read = @ + 1])

\* lines 98-99
ClipEndPage(end_page, page_count) ==
    IF end_page = -1 \/ end_page >= page_count THEN page_count - 1 ELSE end_page

\* lines 94-122 and 135-136: the try block up to the close.
\* [result, failed, opened, closed, read]
ExtractDocument(file_path, start_page, end_page, result) ==
    IF ~file_path.exists \/ ~Document(file_path.bytes).openable
    THEN [result |-> [result EXCEPT !.error = "cannot open", !.keys = @ \cup {"error"}],
          failed |-> TRUE, opened |-> FALSE, closed |-> FALSE, read |-> 0]
    ELSE LET doc == Document(file_path.bytes)
             counted == [result EXCEPT !.metadata.pageCount = Len(doc.pages)]
             pages == ReadPages(doc, start_page,
                                ClipEndPage(end_page, Len(doc.pages)),
                                [ok |-> TRUE, all_blocks |-> <<>>, read |-> 0])
         IN  IF ~pages.ok
             THEN [result |-> [counted EXCEPT !.error = "page error",
                                              !.keys = @ \cup {"error"}],
                   failed |-> TRUE, opened |-> TRUE, closed |-> FALSE,
                   read |-> pages.read]
             ELSE [result |-> [counted EXCEPT
                                  !.segments = ProcessBlocks(pages.all_blocks)],
                   failed |-> FALSE, opened |-> TRUE, closed |-> TRUE,
                   read |-> pages.read]

\* a prefix of the text: what a write that fails part-way leaves behind
Prefix(cells, n) == SubSeq(cells, 1, IF n < Len(cells) THEN n ELSE Len(cells))

\* lines 125-133 in one piece: the entry after the write.  write.how is "ok",
\* "open" (open raised: nothing touched) or "write" (the file was truncated
\* and write.flushed chunks were written before the write raised)
StoreEntry(entry, result, write, by) ==
    IF write.how = "ok" THEN Present(Dump(result), by)
    ELSE IF write.how = "open" THEN entry
    ELSE Present(Prefix(Dump(result), write.flushed * ChunkLen), by)

\* the result after a cache write that raised, were the write covered only by
\* the outer try: the handler at 135-136 would record the error
AfterStore_Outer(result, write) ==
    IF write.how = "ok" THEN result
    ELSE [result EXCEPT !.error = "cache write", !.keys = @ \cup {"error"}]

\* the result after the cache write: lines 132-133 swallow what it raises
AfterStore(result, write) == result

\* lines 138-139
Timed(result, elapsed) == [result EXCEPT !.metadata.processingTimeMs = elapsed]

\* The whole of extract_text_from_pdf.  env is what the surroundings decide:
\* read_fails (the cache file cannot be opened or read), write (see
\* StoreEntry), elapsed (milliseconds); by names the entry operation.
\* entry is the cache file of this content before, and in the value after;
\* lookup is "off", "miss", "bad" (the file is there and does not load) or
\* "hit"; stored is "none", "ok" or "failed"
ExtractText(file_path, start_page, end_page, use_cache, cdir, entry, env, by) ==
    LET result == NewResult(file_path)
        caching == use_cache /\ cdir
        none == [raised |-> FALSE, result |-> result, entry |-> entry,
                 lookup |-> "off", stored |-> "none", hitBy |-> "none",
                 opened |-> FALSE, closed |-> FALSE, read |-> 0]
    IN  IF caching /\ ~file_path.exists
        THEN \* line 79: get_file_hash raises outside every try
             [none EXCEPT !.raised = TRUE]
        ELSE IF caching /\ CacheLoads(entry, env.read_fails)
        THEN [none EXCEPT !.result = FromCache(Load(entry.cells)),
                          !.lookup = "hit", !.hitBy = entry.by]
        ELSE LET x == ExtractDocument(file_path, start_page, end_page, result)
                 store == ~x.failed /\ caching
             IN  [raised |-> FALSE,
                  result |-> Timed(IF store THEN AfterStore(x.result, env.write)
                                   ELSE x.result, env.elapsed),
                  entry |-> IF store
                            THEN StoreEntry(entry, x.result, env.write, by)
                            ELSE entry,
                  lookup |-> IF ~caching THEN "off"
                             ELSE IF entry.exists THEN "bad" ELSE "miss",
                  stored |-> IF ~store THEN "none"
                             ELSE IF env.write.how = "ok" THEN "ok" ELSE "failed",
                  hitBy |-> "none",
                  opened |-> x.opened,
                  closed |-> x.closed,
                  read |-> x.read]

\* what batch_process_pdf leaves in the cache file, were it to store the
\* envelope it returns
BatchStore_Final(entry, result, use_caching) ==
    IF use_caching /\ NoError(result) THEN Present(Dump(result), "batch") ELSE entry

\* what batch_process_pdf leaves in the cache file: lines 273-305 never write
\* it, the entry is the one extract_text_from_pdf left
BatchStore(entry, result, use_caching) == entry

(***************************************************************************)
(* Sequential calls on one PDFProcessor                                    *)
(***************************************************************************)
\* the (start_page, end_page) pairs tried
PageRanges == {<<0, -1>>, <<0, 0>>, <<1, -1>>}

Writes ==
    {[how |-> "ok", flushed |-> 0], [how |-> "open", flushed |-> 0]}
    \cup {[how |-> "write", flushed |-> 1]}

\* a path at which there is no file
Missing == FileAt(<<"m">>, FALSE, "notpdf")

Envs == [read_fails : BOOLEAN, write : Writes, elapsed : 0..MaxElapsedMs]

\* surroundings in which the cache directory works
QuietEnvs == {env \in Envs : ~env.read_fails /\ env.write.how = "ok"}

NoCall ==
    [op |-> "none", file |-> FileAt(<<>>, FALSE, "notpdf"), start_page |-> 0,
     end_page |-> -1, k |-> 0, use_cache |-> FALSE, raised |-> FALSE,
     result |-> NewResult(FileAt(<<>>, FALSE, "notpdf")), lookup |-> "off",
     stored |-> "none", hitBy |-> "none", opened |-> FALSE, closed |-> FALSE,
     read |-> 0]

NoFirst == [set |-> FALSE, call |-> NoCall]

\* the record of a finished call
Finished(op, file, range, k, use_cache, x, result) ==
    [op |-> op, file |-> file, start_page |-> range[1], end_page |-> range[2],
     k |-> k, use_cache |-> use_cache, raised |-> x.raised,
     result |-> result, lookup |-> x.lookup, stored |-> x.stored,
     hitBy |-> x.hitBy, opened |-> x.opened, closed |-> x.closed,
     read |-> x.read]

\* history: the first call that extracted without error and with caching on
Remember(track, call) ==
    IF track /\ ~first.set /\ ~call.raised /\ call.lookup \in {"miss", "bad"}
       /\ "error" \notin call.result.keys
    THEN [set |-> TRUE, call |-> call]
    ELSE first

\* the surroundings a call can tell apart: without caching it never touches
\* the cache directory
Surroundings(envs, use_cache) ==
    IF use_cache /\ cache_dir THEN envs ELSE envs \cap QuietEnvs

\* processor.extract_text_from_pdf(file, start_page, end_page, use_cache)
ExtractCall(ranges, envs, track) ==
    \E file \in disk \cup {Missing}, range \in ranges, use_cache \in BOOLEAN :
      \E env \in Surroundings(envs, use_cache) :
        LET x == ExtractText(file, range[1], range[2], use_cache, cache_dir,
                             cache[FileHash(file)], env, "extract")
            call == Finished("extract", file, range, 0, use_cache, x, x.result)
        IN  /\ cache' = [cache EXCEPT ![FileHash(file)] = x.entry]
            /\ ret' = call
            /\ first' = Remember(track, call)
            /\ UNCHANGED <<cache_dir, disk, calls, heap, pfIn, pfOut>>

\* processor.batch_process_pdf(file, max_segments_per_batch, use_cache), with
\* max_segments_per_batch >= 1
BatchCall(envs, track) ==
    \E file \in disk \cup {Missing}, k \in 1..MaxK, use_cache \in BOOLEAN :
      \E env \in Surroundings(envs, use_cache) :
        LET x == ExtractText(file, 0, -1, use_cache, cache_dir,
                             cache[FileHash(file)], env, "batch")
            result == IF x.raised THEN x.result ELSE BatchPostProcess(x.result, k)
            call == Finished("batch", file, <<0, -1>>, k, use_cache, x, result)
        IN  /\ cache' = [cache EXCEPT ![FileHash(file)] =
                            IF x.raised THEN x.entry
                            ELSE BatchStore(x.entry, result,
                                            use_cache /\ cache_dir)]
            /\ ret' = call
            /\ first' = Remember(track, call)
            /\ UNCHANGED <<cache_dir, disk, calls, heap, pfIn, pfOut>>

\* an invocation that has not started
NoProc ==
    [pc |-> "idle", op |-> "none", k |-> 0, file |-> FileAt(<<>>, FALSE, "notpdf"),
     roff |-> 0, rbuf |-> <<>>, result |-> NewResult(FileAt(<<>>, FALSE, "notpdf")),
     data |-> <<>>, woff |-> 0, hit |-> FALSE, wrote |-> FALSE]

NotRun == [done |-> FALSE, segments |-> <<>>]

Init ==
    /\ cache_dir \in BOOLEAN
    /\ disk \in {{f \in Files : f.bytes = h} : h \in Hashes}
    /\ cache = [h \in Hashes |-> Absent]
    /\ ret = NoCall
    /\ first = NoFirst
    /\ calls = [p \in 1..NProcs |-> NoProc]
    /\ heap = <<>>
    /\ pfIn = <<>>
    /\ pfOut = NotRun

Next == ExtractCall(PageRanges, Envs, FALSE) \/ BatchCall(Envs, FALSE)

Spec == Init /\ [][Next]_vars

\* repeated calls with default pages in working surroundings, the first
\* successful extraction remembered
NextRerun == ExtractCall({<<0, -1>>}, QuietEnvs, TRUE) \/ BatchCall(QuietEnvs, TRUE)

SpecRerun == Init /\ [][NextRerun]_vars

(***************************************************************************)
(* Properties of sequential calls                                          *)
(***************************************************************************)
Returned == ret.op # "none" /\ ~ret.raised

\* C1: in every envelope a call returns (cache hit or miss, success or
\* error, plain or batched) the ids of the segments, in list order, are
\* 0, 1, ..., n-1.
C1_SequentialIds ==
    Returned =>
        \A i \in 1..Len(ret.result.segments) : ret.result.segments[i].id = i - 1

\* a batched envelope served from the cache, three sentences from a page
\* that had blocks filtered out
C1_Witness ==
    /\ Returned /\ ret.op = "batch" /\ ret.lookup = "hit"
    /\ ret.file.bytes = "one"
    /\ Len(ret.result.segments) = 3

\* C2: batch_process_pdf with k = max_segments_per_batch >= 1 on n segments
\* yields ceil(n/k) descriptors, batchId 0, 1, ..., each of k segments but
\* possibly the last, id ranges starting at 0, each starting one past the
\* previous end and ending at n-1; metadata.batchCount and totalSegments
\* are the number of descriptors and n.
C2_BatchPartition ==
    (Returned /\ ret.op = "batch") =>
        LET n == Len(ret.result.segments)
            k == ret.k
            b == ret.result.batches
            m == Len(b)
        IN  /\ "batches" \in ret.result.keys
            /\ m = (n + k - 1) \div k
            /\ \A j \in 1..m :
                   /\ b[j].batchId = j - 1
                   /\ b[j].segmentCount = (IF j < m THEN k ELSE n - k * (m - 1))
                   /\ b[j].startSegmentId = (IF j = 1 THEN 0 ELSE b[j - 1].endSegmentId + 1)
                   /\ b[j].endSegmentId = b[j].startSegmentId + b[j].segmentCount - 1
            /\ (m > 0 => b[m].endSegmentId = n - 1)
            /\ {"batchCount", "totalSegments"} \subseteq ret.result.metadata.keys
            /\ ret.result.metadata.batchCount = m
            /\ ret.result.metadata.totalSegments = n

\* three segments in batches of two: a full batch and a shorter last one
C2_Witness ==
    /\ Returned /\ ret.op = "batch" /\ ret.k = 2
    /\ Len(ret.result.segments) = 3
    /\ Len(ret.result.batches) = 2

\* the envelope without the fromCache flag
ModuloFromCache(result) ==
    [result EXCEPT !.metadata.fromCache = FALSE,
                   !.metadata.keys = @ \ {"fromCache"}]

\* C3: with caching enabled, after one successful extraction of a file any
\* later call in the same mode on a byte-identical file returns the first
\* call's envelope, fromCache aside (processingTimeMs and fileName
\* included), and does not open the document.
C3_RerunEqualsFirst ==
    (/\ first.set
     /\ ret # first.call
     /\ ret.op = first.call.op /\ ret.k = first.call.k
     /\ ret.start_page = first.call.start_page
     /\ ret.end_page = first.call.end_page
     /\ ret.file.exists /\ ret.file.bytes = first.call.file.bytes
     /\ ret.use_cache /\ cache_dir)
    => /\ ~ret.raised
       /\ ~ret.opened
       /\ ModuloFromCache(ret.result) = ModuloFromCache(first.call.result)

\* C4: a call that opened the document has closed it when it returns.
C4_HandleClosed == (ret.op # "none" /\ ret.opened) => ret.closed

\* C5: batch_process_pdf on a document whose segment list is empty returns
\* segments = [], batches = [], initialSegments present and [], no error.
C5_EmptyBatch ==
    (ret.op = "batch" /\ ret.file.exists /\ ret.file.bytes \in {"empty", "notext"})
    => /\ ~ret.raised
       /\ ret.result.segments = <<>>
       /\ "batches" \in ret.result.keys /\ ret.result.batches = <<>>
       /\ "initialSegments" \in ret.result.keys
       /\ ret.result.initialSegments = <<>>
       /\ "error" \notin ret.result.keys

\* the call meets an exception: the file cannot be read or opened, or a page
\* in the range raises
Raises(file, start_page, end_page) ==
    \/ ~file.exists
    \/ ~Document(file.bytes).openable
    \/ \E i \in start_page..ClipEndPage(end_page, Len(Document(file.bytes).pages)) :
           ~Document(file.bytes).pages[i + 1].ok

\* C6: an exception raised while hashing, opening or processing the
\* document does not leave the call: the envelope returned holds the
\* message in error and no segments.
C6_NoPropagation ==
    (ret.op # "none" /\ Raises(ret.file, ret.start_page, ret.end_page))
    => /\ ~ret.raised
       /\ "error" \in ret.result.keys /\ ret.result.error # ""
       /\ ret.result.segments = <<>>

\* the envelope without the time
ModuloTime(result) == [result EXCEPT !.metadata.processingTimeMs = 0]

\* what the same call returns with use_cache off
Uncached(call) ==
    LET x == ExtractText(call.file, call.start_page, call.end_page, FALSE,
                         cache_dir, Absent,
                         [read_fails |-> FALSE,
                          write |-> [how |-> "ok", flushed |-> 0],
                          elapsed |-> 0], call.op)
    IN  IF call.op = "batch" THEN BatchPostProcess(x.result, call.k) ELSE x.result

\* C7: a cache failure is not a failure of the call.  A cache file that is
\* there and cannot be read or parsed makes the call a miss that runs the
\* extraction; a cache write that fails leaves the envelope as extracted,
\* without an error.  Either way the call returns what it returns with the
\* cache off.
C7_CacheFailureAbsorbed ==
    (ret.op # "none" /\ (ret.lookup = "bad" \/ ret.stored = "failed"))
    => /\ ~ret.raised
       /\ ModuloTime(ret.result) = ModuloTime(Uncached(ret))
       /\ (ret.stored = "failed" =>
              /\ "error" \notin ret.result.keys
              /\ ret.opened /\ ret.closed)

\* an unreadable cache file, then an extraction whose cache write fails
C7_Witness ==
    /\ ret.op # "none" /\ ret.lookup = "bad" /\ ret.stored = "failed"
    /\ ret.opened /\ ret.read > 0
    /\ Len(ret.result.segments) >= 2

SentenceSplit(result) ==
    \E i \in 1..Len(result.segments) : result.segments[i].original_segment_id # NoId

\* C9 as stated: a plain call served from a cache file that a batched call
\* wrote returns the batched, sentence-split shape tagged fromCache.
C9_PlainGetsBatched ==
    (ret.op = "extract" /\ ret.lookup = "hit" /\ ret.hitBy = "batch")
    => /\ "fromCache" \in ret.result.metadata.keys
       /\ {"batches", "initialSegments"} \subseteq ret.result.keys
       /\ SentenceSplit(ret.result)

\* C9 as amended: plain and batched calls share the cache file of a content,
\* and the file always holds the plain shape: a plain call served from the
\* cache, whoever wrote the file, returns an envelope tagged fromCache with
\* no batches, no initialSegments and no original_segment_id.
C9_CacheKeepsPlainShape ==
    (ret.op = "extract" /\ ret.lookup = "hit")
    => /\ "fromCache" \in ret.result.metadata.keys
       /\ ret.result.metadata.fromCache
       /\ ret.result.keys = {}
       /\ ~SentenceSplit(ret.result)

\* a plain call served from the cache file a batched call wrote
C9_Witness ==
    /\ ret.op = "extract" /\ ret.lookup = "hit" /\ ret.hitBy = "batch"
    /\ Len(ret.result.segments) >= 2

(***************************************************************************)
(* segment_into_sentences called directly on a list of segments            *)
(***************************************************************************)
Segment(id, source, page, y, original_segment_id) ==
    [id |-> id, source |-> source, page |-> page, bbox |-> <<1, y, 4, y + 2>>,
     position |-> [x |-> 1, y |-> y, width |-> 3, height |-> 2],
     original_segment_id |-> original_segment_id]

\* segments with sentence breaks, without, blank, and already split once
SplitSegments ==
    {Segment(7, tTwo, 1, 0, NoId),
     Segment(3, <<" ", " ">>, 2, 1, 5),
     Segment(0, <<>>, 1, 2, NoId),
     Segment(3, tPlain, 2, 3, NoId),
     Segment(1, <<"A", "!", " ", " ", "A", "?", " ", "a">>, 1, 4, NoId),
     Segment(7, tLower, 3, 5, 2),
     Segment(2, <<"a", ".", " ", "A", " ">>, 1, 6, NoId),
     Segment(4, <<" ">>, 2, 7, NoId)}

\* a list names its dicts in order of first appearance and names them all
FirstAppearance(list, m) ==
    /\ \A a \in 1..m : \E i \in 1..Len(list) : list[i] = a
    /\ \A i \in 1..Len(list) :
           \A a \in 1..(list[i] - 1) : \E j \in 1..(i - 1) : list[j] = a

\* the lists of up to MaxSplitLen segments a caller of the public method may
\* pass: batch_process_pdf (line 277) passes a dict of its own per element,
\* any other caller may pass a list that names one dict more than once
SplitInputs ==
    UNION {{[dicts |-> d, segments |-> l] :
                d \in [1..m -> SplitSegments],
                l \in {x \in [1..n -> 1..m] : FirstAppearance(x, m)}} :
           n \in 0..MaxSplitLen, m \in 0..MaxSplitLen}

InitSplit ==
    /\ cache_dir = FALSE
    /\ disk = {}
    /\ cache = [h \in Hashes |-> Absent]
    /\ ret = NoCall
    /\ first = NoFirst
    /\ calls = [p \in 1..NProcs |-> NoProc]
    /\ \E input \in SplitInputs :
           /\ heap = input.dicts
           /\ pfIn = input.segments
    /\ pfOut = NotRun

\* processor.segment_into_sentences(pfIn): the call returns a list and leaves
\* the caller's dicts as the loop wrote them
SplitCall ==
    /\ ~pfOut.done
    /\ LET run == SplitRun(heap, pfIn)
       IN  /\ heap' = run.dicts
           /\ pfOut' = [done |-> TRUE, segments |-> run.out]
    /\ UNCHANGED <<cache_dir, disk, cache, ret, first, calls, pfIn>>

NextSplit == SplitCall

SpecSplit == InitSplit /\ [][NextSplit]_vars

\* the number of output segments input segment i accounts for
Emitted(segment) ==
    IF Sentences(segment.source) = <<>> THEN 1 ELSE Len(Sentences(segment.source))

RECURSIVE EmittedBefore(_, _)
\* the number of output segments of the inputs before the i-th
EmittedBefore(segments, i) ==
    IF i <= 1 THEN 0
    ELSE EmittedBefore(segments, i - 1) + Emitted(segments[i - 1])

\* what the claim says of the list `given`, as it was read before the call,
\* and the list `out`, as it is read after
SentencesOfParents(given, out) ==
    /\ Len(out) = EmittedBefore(given, Len(given) + 1)
    /\ \A j \in 1..Len(out) : out[j].id = j - 1
    /\ \A i \in 1..Len(given) :
           LET sentences == Sentences(given[i].source)
               at == EmittedBefore(given, i)
           IN  IF sentences = <<>>
               THEN out[at + 1] = [given[i] EXCEPT !.id = at]
               ELSE \A t \in 1..Len(sentences) :
                        /\ out[at + t].source = sentences[t]
                        /\ out[at + t].original_segment_id = given[i].id
                        /\ out[at + t].page = given[i].page
                        /\ out[at + t].bbox = given[i].bbox
                        /\ out[at + t].position = given[i].position

LastPlace(list, i) ==
    CHOOSE j \in i..Len(list) :
        /\ list[j] = list[i]
        /\ \A k \in (j + 1)..Len(list) : list[k] # list[i]

\* the claim with the kept segment read as the code leaves it: the dict the
\* caller passed, holding the id of the last place that names it
SentencesOrSameDict(list, given, out) ==
    /\ Len(out) = EmittedBefore(given, Len(given) + 1)
    /\ \A i \in 1..Len(given) :
           LET sentences == Sentences(given[i].source)
               at == EmittedBefore(given, i)
           IN  IF sentences = <<>>
               THEN out[at + 1] =
                        [given[i] EXCEPT
                             !.id = EmittedBefore(given, LastPlace(list, i))]
               ELSE \A t \in 1..Len(sentences) :
                        /\ out[at + t].id = at + t - 1
                        /\ out[at + t].source = sentences[t]
                        /\ out[at + t].original_segment_id = given[i].id
                        /\ out[at + t].page = given[i].page
                        /\ out[at + t].bbox = given[i].bbox
                        /\ out[at + t].position = given[i].position

Overlay(cells, off, chunk) ==
    LET padded == IF Len(cells) < off
                  THEN cells \o [i \in 1..(off - Len(cells)) |-> Nul]
                  ELSE cells
        end == IF Len(padded) > off + Len(chunk) THEN Len(padded)
               ELSE off + Len(chunk)
    IN  [i \in 1..end |->
            IF i > off /\ i <= off + Len(chunk) THEN chunk[i - off] ELSE padded[i]]

Chunk(cells, off) == PySlice(cells, off, off + ChunkLen)

Entry(p) == cache[FileHash(calls[p].file)]

\* the call starts: lines 67-80
Begin(p) ==
    /\ calls[p].pc = "idle"
    /\ \E file \in disk, op \in {"extract", "batch"}, k \in 1..MaxK :
           /\ op = "extract" => k = 1
           /\ calls' = [calls EXCEPT ![p] =
                  [NoProc EXCEPT !.pc = "exists", !.op = op, !.k = k,
                                 !.file = file, !.result = NewResult(file)]]
    /\ UNCHANGED <<cache_dir, disk, cache, ret, first, heap, pfIn, pfOut>>

\* line 81: os.path.exists(cache_path)
CheckExists(p) ==
    /\ calls[p].pc = "exists"
    /\ calls' = [calls EXCEPT ![p].pc = IF Entry(p).exists THEN "openr" ELSE "extract"]
    /\ UNCHANGED <<cache_dir, disk, cache, ret, first, heap, pfIn, pfOut>>

\* line 83: open(cache_path, "r")
OpenRead(p) ==
    /\ calls[p].pc = "openr"
    /\ calls' = [calls EXCEPT ![p].pc = "read", ![p].roff = 0, ![p].rbuf = <<>>]
    /\ UNCHANGED <<cache_dir, disk, cache, ret, first, heap, pfIn, pfOut>>

\* line 85: json.load reads the file a buffer at a time, parses at the end
\* of the file; lines 87-90
ReadChunk(p) ==
    /\ calls[p].pc = "read"
    /\ LET chunk == Chunk(Entry(p).cells, calls[p].roff)
       IN  calls' = [calls EXCEPT ![p] =
               IF chunk # <<>>
               THEN [@ EXCEPT !.rbuf = @ \o chunk, !.roff = @ + Len(chunk)]
               ELSE IF WellFormed(calls[p].rbuf)
               THEN [@ EXCEPT !.pc = "finish", !.hit = TRUE,
                              !.result = FromCache(Load(calls[p].rbuf))]
               ELSE [@ EXCEPT !.pc = "extract"]]
    /\ UNCHANGED <<cache_dir, disk, cache, ret, first, heap, pfIn, pfOut>>

\* lines 92-122 and 135-136
ExtractStep(p) ==
    /\ calls[p].pc = "extract"
    /\ LET x == ExtractDocument(calls[p].file, 0, -1, calls[p].result)
       IN  calls' = [calls EXCEPT ![p].result = x.result,
                                  ![p].pc = IF x.failed THEN "time" ELSE "openw"]
    /\ UNCHANGED <<cache_dir, disk, cache, ret, first, heap, pfIn, pfOut>>

\* lines 127-129: open(cache_path, "w") truncates the file
OpenWrite(p) ==
    /\ calls[p].pc = "openw"
    /\ cache' = [cache EXCEPT ![FileHash(calls[p].file)] = Present(<<>>, calls[p].op)]
    /\ calls' = [calls EXCEPT ![p].pc = "write", ![p].woff = 0,
                              ![p].data = Dump(calls[p].result),
                              ![p].wrote = TRUE]
    /\ UNCHANGED <<cache_dir, disk, ret, first, heap, pfIn, pfOut>>

\* line 131: json.dump, a buffer at a time, at this open file's offset
WriteChunk(p) ==
    /\ calls[p].pc = "write"
    /\ calls[p].woff < Len(calls[p].data)
    /\ LET chunk == Chunk(calls[p].data, calls[p].woff)
       IN  /\ cache' = [cache EXCEPT ![FileHash(calls[p].file)] =
                  Present(Overlay(Entry(p).cells, calls[p].woff, chunk), calls[p].op)]
           /\ calls' = [calls EXCEPT ![p].woff = @ + Len(chunk)]
    /\ UNCHANGED <<cache_dir, disk, ret, first, heap, pfIn, pfOut>>

\* the end of the with block at 129-131: the file is closed
CloseWrite(p) ==
    /\ calls[p].pc = "write"
    /\ calls[p].woff >= Len(calls[p].data)
    /\ calls' = [calls EXCEPT ![p].pc = "time"]
    /\ UNCHANGED <<cache_dir, disk, cache, ret, first, heap, pfIn, pfOut>>

\* lines 138-141
SetTime(p) ==
    /\ calls[p].pc = "time"
    /\ \E elapsed \in 0..MaxElapsedMs :
           calls' = [calls EXCEPT ![p].result = Timed(@, elapsed), ![p].pc = "finish"]
    /\ UNCHANGED <<cache_dir, disk, cache, ret, first, heap, pfIn, pfOut>>

\* the return of extract_text_from_pdf and, in a batched call, lines 275-305
Finish(p) ==
    /\ calls[p].pc = "finish"
    /\ calls' = [calls EXCEPT
           ![p].result = IF calls[p].op = "batch"
                         THEN BatchPostProcess(@, calls[p].k) ELSE @,
           ![p].pc = "done"]
    /\ UNCHANGED <<cache_dir, disk, cache, ret, first, heap, pfIn, pfOut>>

InitRace ==
    /\ cache_dir = TRUE
    /\ disk \in {{f \in Files : f.bytes = h} : h \in Hashes}
    /\ cache = [h \in Hashes |-> Absent]
    /\ ret = NoCall
    /\ first = NoFirst
    /\ calls = [p \in 1..NProcs |-> NoProc]
    /\ heap = <<>>
    /\ pfIn = <<>>
    /\ pfOut = NotRun

NextRace ==
    \E p \in 1..NProcs :
        \/ Begin(p)
        \/ CheckExists(p)
        \/ OpenRead(p)
        \/ ReadChunk(p)
        \/ ExtractStep(p)
        \/ OpenWrite(p)
        \/ WriteChunk(p)
        \/ CloseWrite(p)
        \/ SetTime(p)
        \/ Finish(p)

SpecRace == InitRace /\ [][NextRace]_vars

Writers == {q \in 1..NProcs : calls[q].wrote}

\* an invocation served from the cache parsed exactly the text some
\* invocation wrote
C10_ReadersSeeWhole ==
    \A p \in 1..NProcs :
        (calls[p].pc = "done" /\ calls[p].hit) =>
            \E q \in Writers : calls[p].rbuf = calls[q].data

\* when every invocation has returned, the cache file is the text one of
\* them wrote
C10_FinalEntryWhole ==
    ((\A p \in 1..NProcs : calls[p].pc = "done") /\ Writers # {}) =>
        \E q \in Writers : cache[FileHash(calls[q].file)].cells = calls[q].data

\* C10: concurrent invocations on the same content race on the cache file
\* without corrupting it: each returns from a whole cache entry or from its
\* own extraction, and once all have finished the cache file is exactly the
\* envelope one of them wrote.
C10_LastWriterWins == C10_ReadersSeeWhole /\ C10_FinalEntryWhole

====
